---- MODULE Spec2Model ----
(***************************************************************************)
(* Model of the LeapPulse ingestion-and-analysis pipeline                  *)
(* (src/engine.py, src/harvesters.py).                                     *)
(*                                                                         *)
(* Python strings are modelled as sequences of one-character strings, so   *)
(* that the regular expressions of the code are computed character by      *)
(* character.  None / NaN / a missing key is the one-element sequence      *)
(* NoneVal, which contains no real character.                              *)
(***************************************************************************)
EXTENDS Integers, Sequences, FiniteSets, TLC

VARIABLES
    \* ---- clean_records (src/engine.py 54-89)
    cin,            \* the batch handed to the last clean_records call
    cout,           \* the table it returned
    passes,         \* how many times clean_records ran on the batch
    \* ---- _simple_keyword_extraction (src/engine.py 197-222)
    corpus,         \* the text handed to _simple_keyword_extraction
    phase,          \* "given" before the call, "extracted" after it
    keywords,       \* the list it returned
    \* ---- module globals of src/engine.py (lines 6-10)
    MODELS_LOADED, VADER_ANALYZER, ROBERTA_PIPELINE, KEYWORD_MODEL,
    inits,          \* how often each model's constructor was attempted
    reloaded,       \* _load_models() was called again after the models were loaded
    \* ---- one call of process_data / analyze_sentiment / extract_trends
    pc,             \* position of the running call; "idle" between calls
    caller,         \* the function that was called
    records,        \* process_data's argument, until it is normalised
    df_clean,       \* the table returned by clean_records
    df_analyzed,    \* the table with its sentiment column
    sentiment_col,  \* 'sentiment' in df_analyzed.columns
    idx,            \* number of rows analyze_sentiment's loop has visited
    sentiments,     \* analyze_sentiment's list of labels
    last,           \* what the loop did for the row it visited last
    trends,         \* the value extract_trends returned (or [] after a failure)
    failed,         \* the stages that raised in this call
    ran,            \* the stages this call entered
    response,       \* process_data's response
    \* ---- one call of a harvester (src/harvesters.py 35-227)
    hpc,            \* position of the running harvester; "idle" before the call
    harvester,      \* "youtube", "reddit" or "google_news"
    fetched,        \* the items the source answered with
    item_i,         \* number of items the loop has visited
    results,        \* the harvester's results list
    exit            \* how the call ended: "", "return", "unreachable", "aborted"

cleanVars == <<cin, cout, passes>>
trendVars == <<corpus, phase, keywords>>
modelVars == <<MODELS_LOADED, VADER_ANALYZER, ROBERTA_PIPELINE, KEYWORD_MODEL, inits, reloaded>>
callVars == <<pc, caller, records, df_clean, df_analyzed, sentiment_col, idx, sentiments,
              last, trends, failed, ran, response>>
harvestVars == <<hpc, harvester, fetched, item_i, results, exit>>
vars == <<cin, cout, passes, corpus, phase, keywords,
          MODELS_LOADED, VADER_ANALYZER, ROBERTA_PIPELINE, KEYWORD_MODEL, inits, reloaded,
          pc, caller, records, df_clean, df_analyzed, sentiment_col, idx, sentiments,
          last, trends, failed, ran, response,
          hpc, harvester, fetched, item_i, results, exit>>

(***************************************************************************)
(* Characters and strings                                                  *)
(***************************************************************************)
LowerAlpha == <<"a","b","c","d","e","f","g","h","i","j","k","l","m",
                "n","o","p","q","r","s","t","u","v","w","x","y","z">>
UpperAlpha == <<"A","B","C","D","E","F","G","H","I","J","K","L","M",
                "N","O","P","Q","R","S","T","U","V","W","X","Y","Z">>
Digits == {"0","1","2","3","4","5","6","7","8","9"}
Range(f) == {f[i] : i \in DOMAIN f}

\* None, NaN or a missing key: not a str
NoneVal == <<"<None>">>
\* isinstance(text, str)
IsStr(v) == v # NoneVal

\* \s of the re module / str.isspace
IsSpace(c) == c \in {" ", "\t", "\n"}
\* \w of the re module
IsWord(c) == c \in Range(LowerAlpha) \cup Range(UpperAlpha) \cup Digits \cup {"_"}

\* str.lower() on one character
LowerChar(c) ==
    IF c \in Range(UpperAlpha)
    THEN LowerAlpha[CHOOSE i \in DOMAIN UpperAlpha : UpperAlpha[i] = c]
    ELSE c
\* str.lower()
Lower(s) == [i \in DOMAIN s |-> LowerChar(s[i])]

\* s[i..j] with Python's clipping
Slice(s, i, j) == IF j < i THEN <<>> ELSE SubSeq(s, i, j)
\* s.startswith(lit, i-1)
StartsAt(s, i, lit) ==
    /\ i + Len(lit) - 1 <= Len(s)
    /\ SubSeq(s, i, i + Len(lit) - 1) = lit

\* last index of the maximal run of characters satisfying P that starts at i
RECURSIVE RunEndNonSpace(_, _)
RunEndNonSpace(s, i) ==
    IF i + 1 <= Len(s) /\ ~IsSpace(s[i + 1]) THEN RunEndNonSpace(s, i + 1) ELSE i
RECURSIVE RunEndWord(_, _)
RunEndWord(s, i) ==
    IF i + 1 <= Len(s) /\ IsWord(s[i + 1]) THEN RunEndWord(s, i + 1) ELSE i
RECURSIVE RunEndSpace(_, _)
RunEndSpace(s, i) ==
    IF i + 1 <= Len(s) /\ IsSpace(s[i + 1]) THEN RunEndSpace(s, i + 1) ELSE i

(***************************************************************************)
(* clean_records.clean_text                                                *)
(***************************************************************************)
HTTP == <<"h","t","t","p">>
WWWDOT == <<"w","w","w",".">>

\* r'http\S+|www\.\S+' matched at position i: index of the last matched
\* character, 0 when there is no match at i
UrlMatchEnd(s, i) ==
    IF /\ (StartsAt(s, i, HTTP) \/ StartsAt(s, i, WWWDOT))
       /\ i + 4 <= Len(s)
       /\ ~IsSpace(s[i + 4])
    THEN RunEndNonSpace(s, i + 4)
    ELSE 0

\* r'@\w+' matched at position i
MentionMatchEnd(s, i) ==
    IF s[i] = "@" /\ i + 1 <= Len(s) /\ IsWord(s[i + 1])
    THEN RunEndWord(s, i + 1)
    ELSE 0

\* re.sub(r'http\S+|www\.\S+', '', text)
RECURSIVE SubUrls(_, _)
SubUrls(s, i) ==
    IF i > Len(s) THEN <<>>
    ELSE LET e == UrlMatchEnd(s, i)
         IN  IF e > 0 THEN SubUrls(s, e + 1) ELSE <<s[i]>> \o SubUrls(s, i + 1)

\* re.sub(r'@\w+', '', text)
RECURSIVE SubMentions(_, _)
SubMentions(s, i) ==
    IF i > Len(s) THEN <<>>
    ELSE LET e == MentionMatchEnd(s, i)
         IN  IF e > 0 THEN SubMentions(s, e + 1) ELSE <<s[i]>> \o SubMentions(s, i + 1)

\* re.sub(r'\s+', ' ', text)
RECURSIVE SubSpaces(_, _)
SubSpaces(s, i) ==
    IF i > Len(s) THEN <<>>
    ELSE IF IsSpace(s[i]) THEN <<" ">> \o SubSpaces(s, RunEndSpace(s, i) + 1)
         ELSE <<s[i]>> \o SubSpaces(s, i + 1)

\* str.strip()
RECURSIVE LStrip(_)
LStrip(s) == IF s # <<>> /\ IsSpace(Head(s)) THEN LStrip(Tail(s)) ELSE s
RECURSIVE RStrip(_)
RStrip(s) ==
    IF s # <<>> /\ IsSpace(s[Len(s)]) THEN RStrip(SubSeq(s, 1, Len(s) - 1)) ELSE s
Strip(s) == RStrip(LStrip(s))

\* a plausible slip: whitespace is normalised before the removals, not after
clean_text_collapse_first(text) ==
    IF ~IsStr(text) THEN <<>>
    ELSE SubMentions(SubUrls(Strip(SubSpaces(text, 1)), 1), 1)

clean_text(text) ==
    IF ~IsStr(text) THEN <<>>
    ELSE Strip(SubSpaces(SubMentions(SubUrls(text, 1), 1), 1))

(***************************************************************************)
(* clean_records                                                           *)
(***************************************************************************)
\* a raw record without a url key (pandas fills the column with NaN)
NoUrl == "<NaN>"

\* df.drop_duplicates(subset=['url']) keeping the last row of each url
drop_duplicates_keep_last(rows) ==
    LET keep == {i \in DOMAIN rows : \A j \in DOMAIN rows : j > i => rows[j].url # rows[i].url}
        RECURSIVE Pick(_)
        Pick(i) == IF i > Len(rows) THEN <<>>
                   ELSE (IF i \in keep THEN <<rows[i]>> ELSE <<>>) \o Pick(i + 1)
    IN  Pick(1)

\* df.drop_duplicates(subset=['url']): keep='first', order kept; NaN equals NaN
drop_duplicates(rows) ==
    LET keep == {i \in DOMAIN rows : \A j \in DOMAIN rows : j < i => rows[j].url # rows[i].url}
        RECURSIVE Pick(_)
        Pick(i) == IF i > Len(rows) THEN <<>>
                   ELSE (IF i \in keep THEN <<rows[i]>> ELSE <<>>) \o Pick(i + 1)
    IN  Pick(1)

\* 'url' in df.columns: some record of the batch has the key
HasUrlColumn(recs) == \E i \in DOMAIN recs : recs[i].url # NoUrl

\* one row of the frame after lines 74-84
CleanRow(r) ==
    LET t == clean_text(r.title)
        x == clean_text(r.text)
    IN  [source |-> r.source, url |-> r.url, title |-> t, text |-> x,
         content |-> t \o <<".", " ">> \o x]

clean_records(recs) ==
    IF recs = <<>> THEN <<>>
    ELSE LET df == [i \in DOMAIN recs |-> CleanRow(recs[i])]
         IN  IF HasUrlColumn(recs) THEN drop_duplicates(df) ELSE df

(***************************************************************************)
(* _simple_keyword_extraction                                              *)
(***************************************************************************)
stop_words ==
    { <<"t","h","e">>,
      <<"a","n","d">>,
      <<"t","o">>,
      <<"o","f">>,
      <<"a">>,
      <<"i","n">>,
      <<"i","s">>,
      <<"t","h","a","t">>,
      <<"f","o","r">>,
      <<"i","t">>,
      <<"o","n">>,
      <<"w","i","t","h">>,
      <<"a","s">>,
      <<"a","r","e">>,
      <<"w","a","s">>,
      <<"t","h","i","s">>,
      <<"b","y">>,
      <<"a","t">>,
      <<"b","e">>,
      <<"o","r">>,
      <<"f","r","o","m">>,
      <<"a","n">>,
      <<"n","o","t">>,
      <<"y","o","u">>,
      <<"w","e">>,
      <<"h","a","v","e">>,
      <<"c","a","n">>,
      <<"h","a","s">>,
      <<"b","u","t">>,
      <<"i","f">>,
      <<"l","e","a","p","s","c","h","o","l","a","r">>,
      <<"l","e","a","p">>,
      <<"s","c","h","o","l","a","r">>,
      <<"v","i","d","e","o">>,
      <<"c","o","m","m","e","n","t","s">>,
      <<"w","a","t","c","h">>,
      <<"h","t","t","p">>,
      <<"h","t","t","p","s">>,
      <<"c","o","m">>,
      <<"w","w","w">>,
      <<"r","e","v","i","e","w">>,
      <<"a","b","o","u","t">> }

\* most_common(10)
TopN == 10
\* len(w) > 3
MinLen == 3

\* re.findall(r'\w+', text): the maximal runs of word characters, left to right
RECURSIVE FindWords(_, _)
FindWords(s, i) ==
    IF i > Len(s) THEN <<>>
    ELSE IF IsWord(s[i])
         THEN LET e == RunEndWord(s, i)
              IN  <<SubSeq(s, i, e)>> \o FindWords(s, e + 1)
         ELSE FindWords(s, i + 1)

\* str.isdigit()
IsDigit(w) == w # <<>> /\ \A i \in DOMAIN w : w[i] \in Digits

\* the comprehension of lines 211-214
RECURSIVE FilterWords(_)
FilterWords(ws) ==
    IF ws = <<>> THEN <<>>
    ELSE LET w == Head(ws)
         IN  (IF Len(w) > MinLen /\ w \notin stop_words /\ ~IsDigit(w) THEN <<w>> ELSE <<>>)
             \o FilterWords(Tail(ws))

\* Counter(filtered_words): the distinct words in the order of their first
\* occurrence, each with its count
CountOf(ws, w) == Cardinality({i \in DOMAIN ws : ws[i] = w})
RECURSIVE CounterOf(_, _)
CounterOf(ws, i) ==
    IF i > Len(ws) THEN <<>>
    ELSE (IF \E j \in 1..(i - 1) : ws[j] = ws[i] THEN <<>>
          ELSE << [word |-> ws[i], count |-> CountOf(ws, ws[i])] >>)
         \o CounterOf(ws, i + 1)

\* sum(counter.values()) if counter else 1
RECURSIVE SumCounts(_)
SumCounts(entries) ==
    IF entries = <<>> THEN 0 ELSE Head(entries).count + SumCounts(Tail(entries))
TotalOf(counter) == IF counter # <<>> THEN SumCounts(counter) ELSE 1

\* a plausible slip: among equal counts the entry inserted last comes first
RECURSIVE sorted_desc_last_first(_)
sorted_desc_last_first(entries) ==
    IF entries = <<>> THEN <<>>
    ELSE LET b == CHOOSE i \in DOMAIN entries :
                    \A j \in DOMAIN entries :
                        \/ entries[j].count < entries[i].count
                        \/ (entries[j].count = entries[i].count /\ j <= i)
         IN  <<entries[b]>> \o
             sorted_desc_last_first([k \in 1..(Len(entries) - 1) |->
                                        IF k < b THEN entries[k] ELSE entries[k + 1]])

\* sorted(items, key=count, reverse=True): descending, stable (equal counts keep
\* their insertion order)
RECURSIVE sorted_desc(_)
sorted_desc(entries) ==
    IF entries = <<>> THEN <<>>
    ELSE LET b == CHOOSE i \in DOMAIN entries :
                    \A j \in DOMAIN entries :
                        \/ entries[j].count < entries[i].count
                        \/ (entries[j].count = entries[i].count /\ i <= j)
         IN  <<entries[b]>> \o
             sorted_desc([k \in 1..(Len(entries) - 1) |->
                             IF k < b THEN entries[k] ELSE entries[k + 1]])

\* counter.most_common(10)
most_common(counter) ==
    LET srt == sorted_desc(counter)
    IN  SubSeq(srt, 1, IF Len(srt) < TopN THEN Len(srt) ELSE TopN)

\* a plausible slip: the score is taken over the distinct tokens
simple_keyword_extraction_distinct_total(text) ==
    IF ~IsStr(text) THEN <<>>
    ELSE LET counter == CounterOf(FilterWords(FindWords(Lower(text), 1)), 1)
             top == most_common(counter)
         IN  [i \in DOMAIN top |->
                [word |-> top[i].word,
                 score |-> [num |-> top[i].count,
                            den |-> IF counter # <<>> THEN Len(counter) ELSE 1]]]

\* _simple_keyword_extraction(text): the pairs (word, count / total); the score is
\* kept as the exact fraction num / den.  text.lower() on a non-str raises, which
\* the handler of line 221 turns into [].
simple_keyword_extraction(text) ==
    IF ~IsStr(text) THEN <<>>
    ELSE LET counter == CounterOf(FilterWords(FindWords(Lower(text), 1)), 1)
             total == TotalOf(counter)
             top == most_common(counter)
         IN  [i \in DOMAIN top |->
                [word |-> top[i].word,
                 score |-> [num |-> top[i].count, den |-> total]]]

\* " ".join(parts)
RECURSIVE JoinSpace(_)
JoinSpace(parts) ==
    IF parts = <<>> THEN <<>>
    ELSE IF Len(parts) = 1 THEN parts[1]
    ELSE parts[1] \o <<" ">> \o JoinSpace(Tail(parts))

(***************************************************************************)
(* _load_models                                                            *)
(***************************************************************************)
None == "None"

\* _load_models(): nothing when MODELS_LOADED; otherwise each of the three
\* constructors is attempted once, each may raise on its own (the model is then
\* None), and MODELS_LOADED is set
\* a variant that never sets the flag, so every call constructs the models anew
load_models_flag_never_set ==
    \E okVader, okRoberta, okKeybert \in BOOLEAN :
        /\ VADER_ANALYZER' = IF okVader THEN "SentimentIntensityAnalyzer" ELSE None
        /\ ROBERTA_PIPELINE' = IF okRoberta THEN "pipeline" ELSE None
        /\ KEYWORD_MODEL' = IF okKeybert THEN "KeyBERT" ELSE None
        /\ inits' = [k \in DOMAIN inits |-> inits[k] + 1]
        /\ reloaded' = (reloaded \/ inits.vader > 0)
        /\ UNCHANGED MODELS_LOADED

load_models ==
    IF MODELS_LOADED
    THEN /\ reloaded' = TRUE
         /\ UNCHANGED <<MODELS_LOADED, VADER_ANALYZER, ROBERTA_PIPELINE, KEYWORD_MODEL, inits>>
    ELSE \E okVader, okRoberta, okKeybert \in BOOLEAN :
            /\ VADER_ANALYZER' = IF okVader THEN "SentimentIntensityAnalyzer" ELSE None
            /\ ROBERTA_PIPELINE' = IF okRoberta THEN "pipeline" ELSE None
            /\ KEYWORD_MODEL' = IF okKeybert THEN "KeyBERT" ELSE None
            /\ inits' = [k \in DOMAIN inits |-> inits[k] + 1]
            /\ MODELS_LOADED' = TRUE
            /\ UNCHANGED reloaded

(***************************************************************************)
(* analyze_sentiment, one row                                              *)
(***************************************************************************)
Labels == {"positive", "neutral", "negative"}

\* roberta_map.get(label, "neutral")
roberta_map(label) ==
    CASE label = "LABEL_0" -> "negative"
      [] label = "LABEL_1" -> "neutral"
      [] label = "LABEL_2" -> "positive"
      [] OTHER -> "neutral"

\* compound >= 0.05 and compound <= -0.05, compound in hundredths
PosThreshold == 5
NegThreshold == -5
\* content[:1000]
MaxModelChars == 1000
safe_content(content) == Slice(content, 1, IF Len(content) < MaxModelChars THEN Len(content) ELSE MaxModelChars)

\* What a model does when it is invoked on a text.
\* ROBERTA_PIPELINE(safe_content): raises, or returns a list of dicts (possibly
\* empty) or one dict with a label.
RobertaOutcomes ==
    { [kind |-> "raise", label |-> ""], [kind |-> "empty_list", label |-> ""],
      [kind |-> "list", label |-> "LABEL_0"], [kind |-> "list", label |-> "LABEL_1"],
      [kind |-> "dict", label |-> "LABEL_2"], [kind |-> "dict", label |-> "LABEL_9"] }
\* VADER_ANALYZER.polarity_scores(text): raises, or returns scores with or without
\* a compound entry
VaderOutcomes ==
    { [kind |-> "raise", compound |-> 0], [kind |-> "no_compound", compound |-> 0] }
    \cup { [kind |-> "scores", compound |-> c] : c \in {-5, -4, 4, 5} }

\* _vader_sentiment(text): the label, and the models invoked for it
vader_sentiment(analyzer, vad) ==
    IF analyzer = None THEN [label |-> "neutral", invoked |-> {}]
    ELSE IF vad.kind = "raise" THEN [label |-> "neutral", invoked |-> {"vader"}]
    ELSE LET compound == IF vad.kind = "no_compound" THEN 0 ELSE vad.compound
         IN  [label |-> IF compound >= PosThreshold THEN "positive"
                        ELSE IF compound <= NegThreshold THEN "negative"
                        ELSE "neutral",
              invoked |-> {"vader"}]

\* a plausible slip: a failure of the model attempt ends in the neutral default
row_sentiment_no_fallthrough(row, roberta, analyzer, rob, vad) ==
    IF Strip(row.content) = <<>> THEN [label |-> "neutral", invoked |-> {}]
    ELSE IF row.source # "youtube" /\ roberta # None
         THEN IF rob.kind \in {"raise", "empty_list"}
              THEN [label |-> "neutral", invoked |-> {"roberta"}]
              ELSE [label |-> roberta_map(rob.label), invoked |-> {"roberta"}]
         ELSE vader_sentiment(analyzer, vad)

\* a plausible slip: the empty-content shortcut is missing
row_sentiment_no_empty_check(row, roberta, analyzer, rob, vad) ==
    IF row.source # "youtube" /\ roberta # None
    THEN IF rob.kind \in {"raise", "empty_list"}
         THEN LET v == vader_sentiment(analyzer, vad)
              IN  [label |-> v.label, invoked |-> {"roberta"} \cup v.invoked]
         ELSE [label |-> roberta_map(rob.label), invoked |-> {"roberta"}]
    ELSE vader_sentiment(analyzer, vad)

\* the body of the loop of lines 109-142 for one row: the label appended, and the
\* models invoked.  result[0] of an empty list raises inside the inner try.
row_sentiment(row, roberta, analyzer, rob, vad) ==
    IF Strip(row.content) = <<>> THEN [label |-> "neutral", invoked |-> {}]
    ELSE IF row.source # "youtube" /\ roberta # None
         THEN IF rob.kind \in {"raise", "empty_list"}
              THEN LET v == vader_sentiment(analyzer, vad)
                   IN  [label |-> v.label, invoked |-> {"roberta"} \cup v.invoked]
              ELSE [label |-> roberta_map(rob.label), invoked |-> {"roberta"}]
         ELSE vader_sentiment(analyzer, vad)

\* the row with its sentiment column
WithSentiment(row, s) ==
    [source |-> row.source, url |-> row.url, title |-> row.title, text |-> row.text,
     content |-> row.content, sentiment |-> s]

(***************************************************************************)
(* extract_trends                                                          *)
(***************************************************************************)
\* the list KEYWORD_MODEL.extract_keywords returns: opaque to this program
ModelKeywords ==
    << [word |-> <<"v","i","s","a"," ","l","o","a","n">>, score |-> [num |-> 7, den |-> 10]] >>

\* extract_trends(df) after _load_models(); kw is what the phrase model does if it
\* is invoked ("keywords" or "raise")
extract_trends(rows, keyword_model, kw) ==
    IF rows = <<>> THEN <<>>
    ELSE LET full_text == JoinSpace([i \in DOMAIN rows |-> rows[i].content])
         IN  IF Strip(full_text) = <<>> THEN <<>>
             ELSE IF keyword_model # None /\ kw = "keywords" THEN ModelKeywords
             ELSE simple_keyword_extraction(full_text)

(***************************************************************************)
(* process_data                                                            *)
(***************************************************************************)
SummaryKeys == {"positive", "neutral", "negative"}
DefaultResponse ==
    [cleaned_records |-> <<>>,
     sentiment_summary |-> [k \in SummaryKeys |-> 0],
     trends |-> <<>>]

\* df['sentiment'].value_counts().to_dict(): the labels present, with their counts
value_counts(rows) ==
    [l \in {rows[i].sentiment : i \in DOMAIN rows} |->
        Cardinality({i \in DOMAIN rows : rows[i].sentiment = l})]

\* a plausible slip: the counts are stored without the defaults
sentiment_summary_no_defaults(counts) == counts

\* lines 253-257: counts.get(k, 0) for the three keys
sentiment_summary(counts) ==
    [k \in SummaryKeys |-> IF k \in DOMAIN counts THEN counts[k] ELSE 0]

\* where an exception that reaches line 262 leaves the call: "except Exception:
\* pass", then "return response"
on_outer_exception == "done"

(***************************************************************************)
(* _is_relevant and the three harvesters (src/harvesters.py)               *)
(***************************************************************************)
\* the brand patterns of _is_relevant, each wrapped in \b ... \b
patterns ==
    << <<"l","e","a","p","s","c","h","o","l","a","r">>,
       <<"l","e","a","p"," ","s","c","h","o","l","a","r">>,
       <<"l","e","a","p"," ","f","i","n","a","n","c","e">>,
       <<"l","e","a","p"," ","i","e","l","t","s">> >>

\* re.search(r"\b" + lit + r"\b", s) matching at position i; lit begins and ends
\* with a \w character, so \b holds where the neighbour is missing or not \w
WordAt(s, i, lit) ==
    /\ StartsAt(s, i, lit)
    /\ (i = 1 \/ ~IsWord(s[i - 1]))
    /\ (i + Len(lit) - 1 = Len(s) \/ ~IsWord(s[i + Len(lit)]))

\* _is_relevant(text)
is_relevant(text) ==
    /\ text # NoneVal /\ text # <<>>
    /\ \E p \in Range(patterns) : \E i \in 1..Len(text) : WordAt(Lower(text), i, p)

\* f"{value}" of a str or of None
Format(v) == IF v = NoneVal THEN <<"N","o","n","e">> ELSE v

\* " | ".join(comments_list)
RECURSIVE JoinBar(_)
JoinBar(parts) ==
    IF parts = <<>> THEN <<>>
    ELSE IF Len(parts) = 1 THEN parts[1]
    ELSE parts[1] \o <<" ","|"," ">> \o JoinBar(Tail(parts))

\* comments_text of harvest_youtube: "" when the comment request raised or
\* returned no usable comment
comments_text(item) ==
    IF item.comments_fail THEN <<>> ELSE JoinBar(item.comments)

\* full_text: the description with the comments for youtube, selftext for
\* reddit, summary for google_news
full_text(h, item) ==
    IF h = "youtube"
    THEN Format(item.text) \o <<"\n","C","o","m","m","e","n","t","s",":"," ">> \o comments_text(item)
    ELSE item.text

\* the record a harvester appends for the item at position k of the fetch; the
\* url stands for the item's own id, permalink or link
RawRecord(h, item, k) ==
    [source |-> h, title |-> item.title, text |-> full_text(h, item), url |-> k,
     keyword |-> "LeapScholar", matched |-> TRUE]

\* feed.entries[:10]
NewsLimit == 10
\* the items the loop of harvester h goes through
Entries(h, items) ==
    IF h = "google_news" /\ Len(items) > NewsLimit
    THEN Slice(items, 1, NewsLimit) ELSE items

\* the filter of lines 93, 148 and 211
passes_filter(h, item) == is_relevant(item.title) \/ is_relevant(full_text(h, item))

(***************************************************************************)
(* Specification SpecClean: clean_records applied to a batch, then again   *)
(* to the rows it returned.                                                *)
(***************************************************************************)
MaxLen == 5
MaxBatch == 3
MaxPasses == 2

CleanAlphabet == {" ", "@", ".", "w", "h", "t", "p"}
\* every string over CleanAlphabet of at most MaxLen characters
AllStrings == UNION {[1..n -> CleanAlphabet] : n \in 0..MaxLen}

Urls == {"u1", "u2"}
SampleTitles ==
    { NoneVal,
      <<"a"," "," ","b">>,
      <<"w","w","w","@","x",".","a">>,
      <<"s","e","e","\t","w","w","w",".","x",".","i","o"," ","@","b","o","b"," ","o","k">> }
SampleText == <<"h","t","t","p","s",":","/","/","t",".","c","o"," ","v","i","s","a","\n">>

\* one record with any short title
SingleBatches ==
    { << [source |-> "reddit", url |-> "u1", title |-> s, text |-> SampleText] >> :
        s \in AllStrings }
\* up to MaxBatch records, with or without a url key
SampleRecords ==
    [source : {"reddit"}, url : Urls \cup {NoUrl}, title : SampleTitles, text : {SampleText}]
MultiBatches == UNION {[1..n -> SampleRecords] : n \in 0..MaxBatch}

IdleClean == cin = <<>> /\ cout = <<>> /\ passes = 0
IdleTrend == corpus = <<>> /\ phase = "off" /\ keywords = <<>>
IdleHarvest ==
    /\ hpc = "idle" /\ harvester = "" /\ fetched = <<>>
    /\ item_i = 0 /\ results = <<>> /\ exit = ""
NoLast == [visited |-> FALSE]
IdleModels ==
    /\ MODELS_LOADED = FALSE
    /\ VADER_ANALYZER = None /\ ROBERTA_PIPELINE = None /\ KEYWORD_MODEL = None
    /\ inits = [vader |-> 0, roberta |-> 0, keybert |-> 0]
    /\ reloaded = FALSE
IdleCall ==
    /\ pc = "idle" /\ caller = "" /\ records = <<>>
    /\ df_clean = <<>> /\ df_analyzed = <<>> /\ sentiment_col = FALSE
    /\ idx = 0 /\ sentiments = <<>> /\ last = NoLast
    /\ trends = <<>> /\ failed = {} /\ ran = {}
    /\ response = DefaultResponse

InitClean ==
    /\ cin \in SingleBatches \cup MultiBatches
    /\ cout = <<>>
    /\ passes = 0
    /\ IdleTrend /\ IdleModels /\ IdleCall /\ IdleHarvest

\* clean_records(records); from the second pass on, records are the rows returned
\* by the previous pass
Clean ==
    /\ passes < MaxPasses
    /\ cin' = IF passes = 0 THEN cin ELSE cout
    /\ cout' = clean_records(cin')
    /\ passes' = passes + 1
    /\ UNCHANGED <<trendVars, modelVars, callVars, harvestVars>>

NextClean == Clean
SpecClean == InitClean /\ [][NextClean]_vars

(***************************************************************************)
(* Specification SpecTrend: _simple_keyword_extraction applied to a corpus *)
(***************************************************************************)
MaxFree == 3

\* chunks a corpus is put together from: a keyword, the same keyword capitalised
\* and followed by a comma, a second keyword, a number, a long stop word, a short
\* word
Vocabulary ==
    { <<"v","i","s","a">>, <<"V","i","s","a",",">>, <<"l","o","a","n">>,
      <<"2","0","2","4">>, <<"a","b","o","u","t">>, <<"u","s","a">> }
FreeSeqs == UNION {[1..n -> Vocabulary] : n \in 0..MaxFree}

\* k distinct keywords aaaa, bbbb, ... each occurring once
Fillers(k) == [i \in 1..k |-> <<LowerAlpha[i], LowerAlpha[i], LowerAlpha[i], LowerAlpha[i]>>]
\* none, and the counts around the cut of most_common
FillerCounts == {0, TopN - 1, TopN, TopN + 1}

ExampleCorpus ==
    << <<"s","c","h","o","l","a","r","s","h","i","p">>,
       <<"s","c","h","o","l","a","r","s","h","i","p">>,
       <<"v","i","s","a">>, <<"v","i","s","a">>, <<"v","i","s","a">>,
       <<"i","n","t","e","r","v","i","e","w">> >>

\* at most one chunk before the fillers, the others after them
Corpora ==
    { JoinSpace(ht[1] \o Fillers(k) \o ht[2]) :
        ht \in {p \in FreeSeqs \X FreeSeqs : Len(p[1]) <= 1 /\ Len(p[1]) + Len(p[2]) <= MaxFree},
        k \in FillerCounts }
    \cup {JoinSpace(ExampleCorpus), NoneVal}

InitTrend ==
    /\ corpus \in Corpora
    /\ phase = "given"
    /\ keywords = <<>>
    /\ IdleClean /\ IdleModels /\ IdleCall /\ IdleHarvest

Extract ==
    /\ phase = "given"
    /\ keywords' = simple_keyword_extraction(corpus)
    /\ phase' = "extracted"
    /\ UNCHANGED <<corpus, cleanVars, modelVars, callVars, harvestVars>>

NextTrend == Extract
SpecTrend == InitTrend /\ [][NextTrend]_vars

(***************************************************************************)
(* Specification Spec: calls of process_data, analyze_sentiment and        *)
(* extract_trends in one process, one after the other.                     *)
(*                                                                         *)
(* A stage of process_data "raises" when the call it makes ends in an      *)
(* exception; analyze_sentiment and extract_trends themselves catch what   *)
(* their models raise, so such a failure is injected by the environment    *)
(* and only into process_data's calls.                                     *)
(***************************************************************************)
Sources == {"youtube", "reddit", "google_news"}

\* what each source's records look like in the batches of process_data
TitleOf(src) ==
    CASE src = "youtube" -> <<"L","e","a","p"," ","v","i","s","a">>
      [] src = "reddit" -> NoneVal
      [] OTHER -> <<"n","e","w","s">>
TextOf(src) ==
    CASE src = "youtube" -> <<"v","i","s","a"," ","l","o","a","n"," ","@","b","o","b"," ","w","w","w",".","x",".","i","o">>
      [] src = "reddit" -> <<"L","o","a","n"," ","2","0","2","4"," ","v","i","s","a">>
      [] OTHER -> <<>>
PipelineRecords ==
    { [source |-> src, url |-> u, title |-> TitleOf(src), text |-> TextOf(src)] :
        src \in Sources, u \in Urls }
PipelineBatches == UNION {[1..n -> PipelineRecords] : n \in 0..MaxBatch}

\* tables handed to analyze_sentiment or extract_trends directly
DirectRows ==
    { [source |-> src, url |-> "u1", title |-> <<>>, text |-> <<>>, content |-> c] :
        src \in {"youtube", "reddit"},
        c \in { <<>>, <<" ", "\t">>, <<"v","i","s","a"," ","l","o","a","n"," ","v","i","s","a">> } }
DirectTables == {<<>>} \cup {<<r>> : r \in DirectRows}

Init == IdleModels /\ IdleCall /\ IdleClean /\ IdleTrend /\ IdleHarvest

AfterClassify == IF caller = "process_data" THEN "extract" ELSE "done"
AfterExtract == IF caller = "process_data" THEN "tally" ELSE "done"

\* process_data(records), lines 228-232
CallProcessData(recs) ==
    /\ pc = "idle"
    /\ pc' = "normalize" /\ caller' = "process_data" /\ records' = recs
    /\ response' = DefaultResponse
    /\ UNCHANGED <<df_clean, df_analyzed, sentiment_col, idx, sentiments, last, trends,
                   failed, ran, modelVars, cleanVars, trendVars, harvestVars>>

\* line 235
NormalizeOk ==
    /\ pc = "normalize"
    /\ df_clean' = clean_records(records)
    /\ records' = <<>>
    /\ ran' = ran \cup {"normalize"}
    /\ pc' = "classify"
    /\ UNCHANGED <<caller, df_analyzed, sentiment_col, idx, sentiments, last, trends,
                   failed, response, modelVars, cleanVars, trendVars, harvestVars>>

\* line 235 raises: lines 262-265
NormalizeRaises ==
    /\ pc = "normalize"
    /\ records' = <<>>
    /\ ran' = ran \cup {"normalize"}
    /\ failed' = failed \cup {"normalize"}
    /\ pc' = on_outer_exception
    /\ UNCHANGED <<caller, df_clean, df_analyzed, sentiment_col, idx, sentiments, last,
                   trends, response, modelVars, cleanVars, trendVars, harvestVars>>

\* analyze_sentiment(df) called directly
CallAnalyzeSentiment(table) ==
    /\ pc = "idle"
    /\ pc' = "classify" /\ caller' = "analyze_sentiment" /\ df_clean' = table
    /\ UNCHANGED <<records, df_analyzed, sentiment_col, idx, sentiments, last, trends,
                   failed, ran, response, modelVars, cleanVars, trendVars, harvestVars>>

\* analyze_sentiment, lines 95-107
AnalyzeEnter ==
    /\ pc = "classify"
    /\ load_models
    /\ ran' = ran \cup {"classify"}
    /\ IF df_clean = <<>>
       THEN /\ df_analyzed' = <<>> /\ sentiment_col' = TRUE
            /\ pc' = AfterClassify
       ELSE /\ pc' = "classify_loop"
            /\ UNCHANGED <<df_analyzed, sentiment_col>>
    /\ idx' = 0 /\ sentiments' = <<>> /\ last' = NoLast
    /\ UNCHANGED <<caller, records, df_clean, trends, failed, response, cleanVars, trendVars, harvestVars>>

\* one iteration of the loop of lines 109-142
ClassifyRecord(rob, vad) ==
    /\ pc = "classify_loop"
    /\ idx < Len(df_clean)
    /\ LET row == df_clean[idx + 1]
           r == row_sentiment(row, ROBERTA_PIPELINE, VADER_ANALYZER, rob, vad)
       IN  /\ sentiments' = Append(sentiments, r.label)
           /\ last' = [visited |-> TRUE, source |-> row.source, content |-> row.content,
                       rob |-> rob, vad |-> vad, label |-> r.label, invoked |-> r.invoked,
                       roberta_input |-> IF "roberta" \in r.invoked
                                         THEN safe_content(row.content) ELSE <<>>]
    /\ idx' = idx + 1
    /\ UNCHANGED <<pc, caller, records, df_clean, df_analyzed, sentiment_col, trends,
                   failed, ran, response, modelVars, cleanVars, trendVars, harvestVars>>

\* lines 144-145
ClassifyReturn ==
    /\ pc = "classify_loop"
    /\ idx = Len(df_clean)
    /\ df_analyzed' = [i \in DOMAIN df_clean |-> WithSentiment(df_clean[i], sentiments[i])]
    /\ sentiment_col' = TRUE
    /\ last' = NoLast
    /\ pc' = AfterClassify
    /\ UNCHANGED <<caller, records, df_clean, idx, sentiments, trends, failed, ran,
                   response, modelVars, cleanVars, trendVars, harvestVars>>

\* a variant of the handler that gives up instead of labelling every row neutral
ClassifyRaisesAborts ==
    /\ caller = "process_data"
    /\ pc \in {"classify", "classify_loop"}
    /\ failed' = failed \cup {"classify"}
    /\ ran' = ran \cup {"classify"}
    /\ idx' = 0 /\ sentiments' = <<>> /\ last' = NoLast
    /\ pc' = on_outer_exception
    /\ UNCHANGED <<caller, records, df_clean, df_analyzed, sentiment_col, trends, response,
                   modelVars, cleanVars, trendVars, harvestVars>>

\* line 238 raises: lines 239-241
ClassifyRaises ==
    /\ caller = "process_data"
    /\ pc \in {"classify", "classify_loop"}
    /\ failed' = failed \cup {"classify"}
    /\ ran' = ran \cup {"classify"}
    /\ df_analyzed' = [i \in DOMAIN df_clean |-> WithSentiment(df_clean[i], "neutral")]
    /\ sentiment_col' = TRUE
    /\ idx' = 0 /\ sentiments' = <<>> /\ last' = NoLast
    /\ pc' = "extract"
    /\ UNCHANGED <<caller, records, df_clean, trends, response, modelVars, cleanVars, trendVars, harvestVars>>

\* extract_trends(df) called directly
CallExtractTrends(table) ==
    /\ pc = "idle"
    /\ pc' = "extract" /\ caller' = "extract_trends"
    /\ df_analyzed' = [i \in DOMAIN table |-> WithSentiment(table[i], "neutral")]
    /\ sentiment_col' = TRUE
    /\ UNCHANGED <<records, df_clean, idx, sentiments, last, trends, failed, ran, response,
                   modelVars, cleanVars, trendVars, harvestVars>>

\* extract_trends, lines 168-195
ExtractTrends(kw) ==
    /\ pc = "extract"
    /\ load_models
    /\ ran' = ran \cup {"extract"}
    /\ trends' = extract_trends(df_analyzed, KEYWORD_MODEL', kw)
    /\ pc' = AfterExtract
    /\ UNCHANGED <<caller, records, df_clean, df_analyzed, sentiment_col, idx, sentiments,
                   last, failed, response, cleanVars, trendVars, harvestVars>>

\* line 244 raises: lines 245-246
ExtractRaises ==
    /\ caller = "process_data"
    /\ pc = "extract"
    /\ failed' = failed \cup {"extract"}
    /\ ran' = ran \cup {"extract"}
    /\ trends' = <<>>
    /\ pc' = "tally"
    /\ UNCHANGED <<caller, records, df_clean, df_analyzed, sentiment_col, idx, sentiments,
                   last, response, modelVars, cleanVars, trendVars, harvestVars>>

\* lines 248-257
TallyOk ==
    /\ pc = "tally"
    /\ ran' = ran \cup {"tally"}
    /\ LET counts == IF sentiment_col THEN value_counts(df_analyzed) ELSE <<>>
       IN  response' = [response EXCEPT !.sentiment_summary = sentiment_summary(counts)]
    /\ pc' = "serialize"
    /\ UNCHANGED <<caller, records, df_clean, df_analyzed, sentiment_col, idx, sentiments,
                   last, trends, failed, modelVars, cleanVars, trendVars, harvestVars>>

\* line 249 raises: lines 262-265
TallyRaises ==
    /\ pc = "tally"
    /\ ran' = ran \cup {"tally"}
    /\ failed' = failed \cup {"tally"}
    /\ pc' = on_outer_exception
    /\ UNCHANGED <<caller, records, df_clean, df_analyzed, sentiment_col, idx, sentiments,
                   last, trends, response, modelVars, cleanVars, trendVars, harvestVars>>

\* lines 259-260
SerializeOk ==
    /\ pc = "serialize"
    /\ ran' = ran \cup {"serialize"}
    /\ response' = [response EXCEPT !.cleaned_records = df_analyzed, !.trends = trends]
    /\ pc' = "done"
    /\ UNCHANGED <<caller, records, df_clean, df_analyzed, sentiment_col, idx, sentiments,
                   last, trends, failed, modelVars, cleanVars, trendVars, harvestVars>>

\* line 259 raises: lines 262-265
SerializeRaises ==
    /\ pc = "serialize"
    /\ ran' = ran \cup {"serialize"}
    /\ failed' = failed \cup {"serialize"}
    /\ pc' = on_outer_exception
    /\ UNCHANGED <<caller, records, df_clean, df_analyzed, sentiment_col, idx, sentiments,
                   last, trends, response, modelVars, cleanVars, trendVars, harvestVars>>

\* the call has returned; its locals are gone, the module globals stay
Return ==
    /\ pc = "done"
    /\ pc' = "idle" /\ caller' = "" /\ records' = <<>>
    /\ df_clean' = <<>> /\ df_analyzed' = <<>> /\ sentiment_col' = FALSE
    /\ idx' = 0 /\ sentiments' = <<>> /\ last' = NoLast
    /\ trends' = <<>> /\ failed' = {} /\ ran' = {}
    /\ response' = DefaultResponse
    /\ UNCHANGED <<modelVars, cleanVars, trendVars, harvestVars>>

Next ==
    \/ \E recs \in PipelineBatches : CallProcessData(recs)
    \/ NormalizeOk
    \/ NormalizeRaises
    \/ \E table \in DirectTables : CallAnalyzeSentiment(table)
    \/ AnalyzeEnter
    \/ \E rob \in RobertaOutcomes, vad \in VaderOutcomes : ClassifyRecord(rob, vad)
    \/ ClassifyReturn
    \/ ClassifyRaises
    \/ \E table \in DirectTables : CallExtractTrends(table)
    \/ \E kw \in {"keywords", "raise"} : ExtractTrends(kw)
    \/ ExtractRaises
    \/ TallyOk
    \/ TallyRaises
    \/ SerializeOk
    \/ SerializeRaises
    \/ Return

Spec == Init /\ [][Next]_vars

(***************************************************************************)
(* Specification SpecHarvest: one call of harvest_youtube, harvest_reddit   *)
(* or harvest_google_news against a source that answers with a list of     *)
(* items, or cannot be reached.                                            *)
(*                                                                         *)
(* An item "raises" when extracting its fields ends in an exception (a     *)
(* missing videoId or snippet, a timestamp fromtimestamp rejects, a title   *)
(* that is not a str).                                                     *)
(***************************************************************************)
MaxItems == 2

Harvesters == {"youtube", "reddit", "google_news"}

\* the brand as one word in mixed case, the brand inside a longer word, no title
HarvestTitles ==
    { <<"L","e","a","p","S","c","h","o","l","a","r">>,
      <<"l","e","a","p","s","c","h","o","l","a","r","s">>,
      <<>> }
\* another brand phrase in upper case, a phrase broken by a second space, no text
HarvestTexts ==
    { <<"L","E","A","P"," ","F","I","N","A","N","C","E">>,
      <<"L","e","a","p"," "," ","S","c","h","o","l","a","r">>,
      NoneVal }
PlainItems ==
    [title : HarvestTitles, text : HarvestTexts, raises : BOOLEAN,
     comments : {<<>>}, comments_fail : {FALSE}]
\* videos whose comments were fetched, or whose comment request raised
CommentedItems ==
    { [title |-> <<>>, text |-> NoneVal, raises |-> FALSE,
       comments |-> <<<<"n","i","c","e">>, <<"L","e","a","p"," ","I","E","L","T","S","!">>>>, comments_fail |-> FALSE],
      [title |-> <<>>, text |-> NoneVal, raises |-> FALSE,
       comments |-> <<>>, comments_fail |-> TRUE],
      [title |-> <<"L","e","a","p","S","c","h","o","l","a","r">>, text |-> NoneVal, raises |-> FALSE,
       comments |-> <<>>, comments_fail |-> TRUE] }
ItemsOf(h) == IF h = "youtube" THEN PlainItems \cup CommentedItems ELSE PlainItems

\* a feed with one entry more than harvest_google_news reads: NewsLimit entries
\* that do not mention the brand, then one that does
Offtopic ==
    [title |-> <<>>, text |-> <<"v","i","s","a">>, raises |-> FALSE,
     comments |-> <<>>, comments_fail |-> FALSE]
OnTopic == [Offtopic EXCEPT !.title = <<"L","e","a","p","S","c","h","o","l","a","r">>]
LongFeed == [k \in 1..(NewsLimit + 1) |-> IF k <= NewsLimit THEN Offtopic ELSE OnTopic]

Fetches(h) ==
    UNION {[1..n -> ItemsOf(h)] : n \in 0..MaxItems}
    \cup (IF h = "google_news" THEN {LongFeed} ELSE {})

InitHarvest == IdleHarvest /\ IdleClean /\ IdleTrend /\ IdleModels /\ IdleCall

\* lines 39-41, 47-56 and 109-110; 126-129 and 163-164; 175-182 and 224-225:
\* no API key, a request that raises, a status other than 200
SourceUnreachable(h) ==
    /\ hpc = "idle"
    /\ harvester' = h
    /\ results' = <<>>
    /\ exit' = "unreachable"
    /\ hpc' = "returned"
    /\ UNCHANGED <<fetched, item_i, cleanVars, trendVars, modelVars, callVars>>

\* the source answers with items; harvest_google_news returns [] at once for a
\* feed without entries (lines 185-186)
Fetch(h, items) ==
    /\ hpc = "idle"
    /\ harvester' = h
    /\ fetched' = items
    /\ item_i' = 0
    /\ results' = <<>>
    /\ IF h = "google_news" /\ items = <<>>
       THEN hpc' = "returned" /\ exit' = "return"
       ELSE hpc' = "loop" /\ exit' = ""
    /\ UNCHANGED <<cleanVars, trendVars, modelVars, callVars>>

\* one iteration of the loop of lines 58-107 (youtube) or 134-161 (reddit): an
\* exception is caught by the handler inside the loop, which continues
ItemSkipping ==
    /\ hpc = "loop"
    /\ harvester \in {"youtube", "reddit"}
    /\ item_i < Len(Entries(harvester, fetched))
    /\ LET item == fetched[item_i + 1]
       IN  results' = IF ~item.raises /\ passes_filter(harvester, item)
                      THEN Append(results, RawRecord(harvester, item, item_i + 1))
                      ELSE results
    /\ item_i' = item_i + 1
    /\ UNCHANGED <<hpc, harvester, fetched, exit, cleanVars, trendVars, modelVars, callVars>>

\* one iteration of the loop of lines 188-222 (google_news): there is no handler
\* inside the loop, so an exception reaches the one of line 224, which returns []
ItemNews ==
    /\ hpc = "loop"
    /\ harvester = "google_news"
    /\ item_i < Len(Entries(harvester, fetched))
    /\ LET item == fetched[item_i + 1]
       IN  IF item.raises
           THEN /\ results' = <<>>
                /\ hpc' = "returned"
                /\ exit' = "aborted"
           ELSE /\ results' = IF passes_filter(harvester, item)
                              THEN Append(results, RawRecord(harvester, item, item_i + 1))
                              ELSE results
                /\ UNCHANGED <<hpc, exit>>
    /\ item_i' = item_i + 1
    /\ UNCHANGED <<harvester, fetched, cleanVars, trendVars, modelVars, callVars>>

\* return results (lines 112, 166, 227)
HarvestReturn ==
    /\ hpc = "loop"
    /\ item_i = Len(Entries(harvester, fetched))
    /\ hpc' = "returned"
    /\ exit' = "return"
    /\ UNCHANGED <<harvester, fetched, item_i, results, cleanVars, trendVars, modelVars, callVars>>

NextHarvest ==
    \/ \E h \in Harvesters : SourceUnreachable(h)
    \/ \E h \in Harvesters : \E items \in Fetches(h) : Fetch(h, items)
    \/ ItemSkipping
    \/ ItemNews
    \/ HarvestReturn
SpecHarvest == InitHarvest /\ [][NextHarvest]_vars

(***************************************************************************)
(* Claims about clean_records                                              *)
(***************************************************************************)
AllCarryUrl(recs) == \A i \in DOMAIN recs : recs[i].url # NoUrl
\* index of the first record of the batch with url u
FirstWithUrl(recs, u) ==
    CHOOSE i \in DOMAIN recs :
        recs[i].url = u /\ \A j \in DOMAIN recs : recs[j].url = u => i <= j

\* C6: for a non-empty batch whose records all carry a url, the returned table has
\* exactly one row per distinct url of the batch, that row is the cleaned first
\* record with that url, and the rows are in input order.
C6_DedupFirstWins ==
    (passes >= 1 /\ cin # <<>> /\ AllCarryUrl(cin)) =>
        /\ \A i \in DOMAIN cin :
              Cardinality({k \in DOMAIN cout : cout[k].url = cin[i].url}) = 1
        /\ \A k \in DOMAIN cout :
              /\ \E i \in DOMAIN cin : cin[i].url = cout[k].url
              /\ LET f == FirstWithUrl(cin, cout[k].url)
                 IN  /\ cout[k].title = clean_text(cin[f].title)
                     /\ cout[k].text = clean_text(cin[f].text)
                     /\ cout[k].source = cin[f].source
        /\ \A k1, k2 \in DOMAIN cout :
              k1 < k2 => FirstWithUrl(cin, cout[k1].url) < FirstWithUrl(cin, cout[k2].url)

\* a batch u, v, u whose two records with the same url differ was deduplicated
C6_Witness ==
    /\ passes = 1 /\ Len(cin) = 3 /\ AllCarryUrl(cin)
    /\ cin[1].url = cin[3].url /\ cin[1].url # cin[2].url
    /\ cin[1].title # cin[3].title /\ IsStr(cin[1].title) /\ IsStr(cin[3].title)
    /\ Len(cout) = 2

\* no match of the URL pattern or of the mention pattern in s
NothingToRemove(s) ==
    \A i \in DOMAIN s : UrlMatchEnd(s, i) = 0 /\ MentionMatchEnd(s, i) = 0
AlreadyCleaned(rows) ==
    \A i \in DOMAIN rows : NothingToRemove(rows[i].title) /\ NothingToRemove(rows[i].text)

\* C7: clean_records on the rows of a previous clean_records output that hold no
\* URL and no @-mention leaves title, text and content of every row unchanged.
C7_CleanIdempotent ==
    (passes >= 2 /\ AlreadyCleaned(cin)) =>
        /\ Len(cout) = Len(cin)
        /\ \A i \in DOMAIN cin :
              /\ cout[i].title = cin[i].title
              /\ cout[i].text = cin[i].text
              /\ cout[i].content = cin[i].content

\* a cleaned, non-empty row went through clean_records a second time
C7_Witness ==
    /\ passes = 2 /\ cin # <<>> /\ AlreadyCleaned(cin)
    /\ Len(cin[1].title) >= 3 /\ cin[1].text # <<>>
    /\ \E i \in DOMAIN cin[1].title : cin[1].title[i] = " "

(***************************************************************************)
(* Claims about _simple_keyword_extraction                                 *)
(***************************************************************************)
\* a token survives the filter: longer than 3, not purely numeric, no stop word
Survives(w) ==
    /\ Len(w) > 3
    /\ \E i \in DOMAIN w : w[i] \notin Digits
    /\ w \notin stop_words
RECURSIVE SumNum(_)
SumNum(kws) == IF kws = <<>> THEN 0 ELSE Head(kws).score.num + SumNum(Tail(kws))

\* What the corpus holds, computed once per state: the lower-cased word tokens, the
\* positions of the surviving ones, the distinct surviving tokens, and for each of
\* them its number of occurrences and the position of its first occurrence.
CorpusFacts ==
    LET toks == FindWords(Lower(corpus), 1)
        surv == {i \in DOMAIN toks : Survives(toks[i])}
        dist == {toks[i] : i \in surv}
    IN  [tokens |-> toks,
         survivors |-> surv,
         distinct |-> dist,
         occ |-> [w \in dist |-> Cardinality({i \in surv : toks[i] = w})],
         first |-> [w \in dist |->
                      CHOOSE i \in surv : toks[i] = w /\ \A j \in surv : toks[j] = w => i <= j]]
Returned == {keywords[k].word : k \in DOMAIN keywords}

\* C8: the frequency fallback returns at most 10 pairs; every returned token survives
\* the filter; the pairs are in descending count order, ties in order of first
\* occurrence; no omitted token has a higher count than a returned one; each score is
\* count / number of surviving tokens; the example corpus ranks visa, scholarship,
\* interview.
C8_FrequencyFallback ==
    (phase = "extracted" /\ IsStr(corpus)) =>
        LET f == CorpusFacts
        IN  /\ Len(keywords) <= 10
            /\ \A k \in DOMAIN keywords :
                  /\ Survives(keywords[k].word)
                  /\ keywords[k].word \in f.distinct
                  /\ keywords[k].score.num = f.occ[keywords[k].word]
                  /\ keywords[k].score.den = Cardinality(f.survivors)
            /\ \A k1, k2 \in DOMAIN keywords :
                  k1 < k2 =>
                    LET w1 == keywords[k1].word
                        w2 == keywords[k2].word
                    IN  \/ f.occ[w1] > f.occ[w2]
                        \/ (f.occ[w1] = f.occ[w2] /\ f.first[w1] < f.first[w2])
            /\ \A w \in f.distinct \ Returned :
                  \A k \in DOMAIN keywords : f.occ[w] <= f.occ[keywords[k].word]
            /\ (Cardinality(f.distinct) <= 10 => Returned = f.distinct)
            /\ (corpus = JoinSpace(ExampleCorpus) =>
                  [k \in DOMAIN keywords |-> keywords[k].word] =
                     << <<"v","i","s","a">>,
                        <<"s","c","h","o","l","a","r","s","h","i","p">>,
                        <<"i","n","t","e","r","v","i","e","w">> >>)

\* more than 10 tokens survive, the one counted twice occurs last in the corpus and
\* is ranked first, the once-counted ones follow in corpus order, one is cut, and
\* the corpus holds a token that does not survive
C8_Witness ==
    /\ phase = "extracted" /\ IsStr(corpus)
    /\ Len(keywords) = 10
    /\ keywords[1].score.num = 2
    /\ keywords[2].score.num = 1
    /\ LET f == CorpusFacts
       IN  /\ Cardinality(f.distinct) > 10
           /\ \A k \in 2..10 : f.first[keywords[k].word] < f.first[keywords[1].word]
           /\ \E i \in DOMAIN f.tokens : i \notin f.survivors

\* C9 as stated: whenever a token survives, the returned scores sum to 1
\* (num_1 + ... + num_n = den)
C9_ScoresSumToOne ==
    (phase = "extracted" /\ IsStr(corpus) /\ CorpusFacts.survivors # {}) =>
        /\ keywords # <<>>
        /\ SumNum(keywords) = keywords[1].score.den

\* C9 amended: the returned scores sum to 1 exactly when at most 10 distinct tokens
\* survive; with more than 10 the sum is below 1.
C9_ScoresSumToOneUpToTen ==
    (phase = "extracted" /\ IsStr(corpus)) =>
        LET f == CorpusFacts
        IN  f.survivors # {} =>
              /\ keywords # <<>>
              /\ \A k \in DOMAIN keywords : keywords[k].score.den = Cardinality(f.survivors)
              /\ (Cardinality(f.distinct) <= 10 =>
                    SumNum(keywords) = Cardinality(f.survivors))
              /\ (Cardinality(f.distinct) > 10 =>
                    SumNum(keywords) < Cardinality(f.survivors))

\* several tokens, one of them repeated, all returned
C9_Witness ==
    /\ phase = "extracted" /\ IsStr(corpus)
    /\ Len(keywords) >= 3
    /\ keywords[1].score.num >= 2
    /\ SumNum(keywords) = keywords[1].score.den
    /\ Cardinality(CorpusFacts.distinct) <= 10

(***************************************************************************)
(* Claims about process_data                                               *)
(***************************************************************************)
Returned_process_data == pc = "done" /\ caller = "process_data"

\* C1: whatever the batch, the stages that raise and the models that are available,
\* process_data returns (no exception leaves it) a mapping with exactly the keys
\* cleaned_records, sentiment_summary and trends, whose sentiment_summary has exactly
\* the keys positive, neutral and negative, each a non-negative integer.
C1_ResponseShape ==
    /\ pc # "raised"
    /\ Returned_process_data =>
          /\ DOMAIN response = {"cleaned_records", "sentiment_summary", "trends"}
          /\ DOMAIN response.sentiment_summary = {"positive", "neutral", "negative"}
          /\ \A k \in {"positive", "neutral", "negative"} :
                response.sentiment_summary[k] \in Nat

\* tally and serialisation raised after two stages had failed or not, on a batch
\* that cleaned to two records, with one label absent from the column
C1_Witness ==
    /\ Returned_process_data
    /\ "serialize" \in failed /\ "classify" \notin failed
    /\ Len(df_analyzed) = 2
    /\ response.sentiment_summary["positive"] = 1
    /\ response.sentiment_summary["negative"] = 1
    /\ response.sentiment_summary["neutral"] = 0

\* C2: in every returned result the three counts of sentiment_summary add up to the
\* number of entries of cleaned_records that carry a sentiment.
C2_SummaryMatchesRecords ==
    Returned_process_data =>
        response.sentiment_summary["positive"] + response.sentiment_summary["neutral"]
            + response.sentiment_summary["negative"]
        = Cardinality({i \in DOMAIN response.cleaned_records :
                          response.cleaned_records[i].sentiment \in Labels})

\* C3, first part: when only classification raises, every cleaned record is labelled
\* neutral, trend extraction is still attempted and its result returned, and
\* cleaned_records holds all cleaned records.
C3_ClassifyFailureContinues ==
    (Returned_process_data /\ failed = {"classify"}) =>
        /\ "extract" \in ran
        /\ response.trends = trends
        /\ response.cleaned_records =
              [i \in DOMAIN df_clean |-> WithSentiment(df_clean[i], "neutral")]
        /\ response.sentiment_summary =
              [k \in SummaryKeys |-> IF k = "neutral" THEN Len(df_clean) ELSE 0]

\* C3, second part: when only trend extraction raises, trends is [] and
\* cleaned_records and sentiment_summary reflect the classified records.
C3_ExtractFailureContinues ==
    (Returned_process_data /\ failed = {"extract"}) =>
        /\ response.trends = <<>>
        /\ Len(sentiments) = Len(df_clean)
        /\ response.cleaned_records =
              [i \in DOMAIN df_clean |-> WithSentiment(df_clean[i], sentiments[i])]
        /\ \A k \in SummaryKeys :
              response.sentiment_summary[k]
                 = Cardinality({i \in DOMAIN sentiments : sentiments[i] = k})

NoModelLabel ==
    \/ last.source = "youtube"
    \/ ROBERTA_PIPELINE = None
    \/ last.rob.kind \in {"raise", "empty_list"}

\* C4: a row with non-empty content for which the high-fidelity model produces no
\* label gets exactly the lexicon result (positive from 0.05, negative to -0.05,
\* neutral between; neutral when the analyzer is missing or raises); a failed model
\* attempt goes on to the lexicon analyzer; the model is never invoked for a youtube
\* row; the loop goes on to the next row whatever the models did.
C4_LexiconFallback ==
    (pc = "classify_loop" /\ last.visited /\ Strip(last.content) # <<>>) =>
        /\ Len(sentiments) = idx /\ sentiments[idx] = last.label
        /\ last.label \in {"positive", "neutral", "negative"}
        /\ last.source = "youtube" => "roberta" \notin last.invoked
        /\ NoModelLabel =>
              /\ last.label =
                    IF VADER_ANALYZER = None \/ last.vad.kind # "scores" THEN "neutral"
                    ELSE IF last.vad.compound >= 5 THEN "positive"
                    ELSE IF last.vad.compound <= -5 THEN "negative"
                    ELSE "neutral"
              /\ (VADER_ANALYZER # None) => "vader" \in last.invoked

\* the model was invoked for a forum row and raised, and the lexicon analyzer's
\* compound of -0.05 made the row negative
C4_Witness ==
    /\ pc = "classify_loop" /\ last.visited /\ Strip(last.content) # <<>>
    /\ last.source = "reddit" /\ ROBERTA_PIPELINE # None /\ VADER_ANALYZER # None
    /\ last.rob.kind = "raise" /\ last.invoked = {"roberta", "vader"}
    /\ last.vad.kind = "scores" /\ last.vad.compound = -5
    /\ last.label = "negative"

\* C5: a row whose content is empty or whitespace-only is labelled neutral, whatever
\* its source and whichever models are available, and no model is invoked for it.
C5_EmptyContentNeutral ==
    (pc = "classify_loop" /\ last.visited /\ Strip(last.content) = <<>>) =>
        /\ last.label = "neutral"
        /\ last.invoked = {}
        /\ sentiments[idx] = "neutral"

\* a whitespace-only forum row with both models available, which would have called
\* it negative and positive
C5_Witness ==
    /\ pc = "classify_loop" /\ last.visited
    /\ last.content = <<" ", "\t">> /\ last.source = "reddit"
    /\ ROBERTA_PIPELINE # None /\ VADER_ANALYZER # None
    /\ last.rob.label = "LABEL_0" /\ last.vad.kind = "scores" /\ last.vad.compound = 5
    /\ last.label = "neutral"

(***************************************************************************)
(* Claims about the harvesters                                             *)
(***************************************************************************)
\* some brand pattern occurs in the text as a whole phrase, in any letter case
MentionsBrandPhrase(text) ==
    /\ IsStr(text)
    /\ \E p \in Range(patterns) : \E i \in 1..Len(text) : WordAt(Lower(text), i, p)
\* "LeapScholar" occurs in the text as a whole word, in any letter case
MentionsLeapScholar(text) ==
    /\ IsStr(text)
    /\ \E i \in 1..Len(text) : WordAt(Lower(text), i, patterns[1])
\* the harvester has returned after its source answered
HarvestReturned == hpc = "returned" /\ exit # "unreachable"
\* the item at position k of the fetch is in the returned list
InOutput(k) == \E j \in DOMAIN results : results[j].url = k

\* C10, first half: a record whose title and text contain none of the brand
\* patterns is never in a harvester's list.
C10_NoOffTopicRecord ==
    \A j \in DOMAIN results :
        MentionsBrandPhrase(results[j].title) \/ MentionsBrandPhrase(results[j].text)

\* C10, second half, for the harvesters whose loop catches per item: a fetched
\* item that was processed without an exception and whose title or text holds
\* the word LeapScholar is in the returned list.
C10_AcceptedWhereItemsAreIsolated ==
    (HarvestReturned /\ harvester \in {"youtube", "reddit"}) =>
        \A k \in DOMAIN fetched :
            (/\ ~fetched[k].raises
             /\ \/ MentionsLeapScholar(fetched[k].title)
                \/ MentionsLeapScholar(fetched[k].text))
            => InOutput(k)

\* C10 (relevance gate): for each of the three harvesters, an item whose title
\* and text contain none of the brand patterns is never in the harvester's
\* output, and a successfully fetched item whose title or text contains
\* "LeapScholar" in any letter case is accepted into the output.  "Contains" is
\* read here as the whole word, which is the least the sentence can mean.
C10_RelevanceGate ==
    /\ C10_NoOffTopicRecord
    /\ HarvestReturned =>
        \A k \in DOMAIN Entries(harvester, fetched) :
            (/\ ~fetched[k].raises
             /\ \/ MentionsLeapScholar(fetched[k].title)
                \/ MentionsLeapScholar(fetched[k].text))
            => InOutput(k)

\* processing some entry of the fetch raised
SomeItemRaised == \E k \in DOMAIN Entries(harvester, fetched) : fetched[k].raises
\* the entries of the fetch that did not raise and pass the relevance filter
Survivors ==
    { k \in DOMAIN Entries(harvester, fetched) :
        ~fetched[k].raises /\ passes_filter(harvester, fetched[k]) }

\* C11, for the harvesters whose loop has a handler of its own (video, forum):
\* after a failing item every other item that passes the filter is returned.
C11_IsolatedWhereCaught ==
    (HarvestReturned /\ harvester \in {"youtube", "reddit"} /\ SomeItemRaised) =>
        \A k \in Survivors : InOutput(k)

\* C11 (per-item failure isolation): in each of the three harvesters a failure
\* while processing one fetched item skips only that item; every other item of
\* the same fetch that passes the relevance filter, whether it was processed
\* before or after the failing item, is still in the returned list.
C11_ItemFailureIsolation ==
    (HarvestReturned /\ SomeItemRaised) =>
        /\ \A k \in Survivors : InOutput(k)
        /\ \A j \in DOMAIN results : results[j].url \in Survivors

(***************************************************************************)
(* Claims about _load_models                                               *)
(***************************************************************************)
ModelNames == {"vader", "roberta", "keybert"}

\* each constructor was attempted at most once; before the first call none was,
\* and after it all three were, whichever of them failed
AttemptedAtMostOnce ==
    /\ \A k \in ModelNames : inits[k] <= 1
    /\ MODELS_LOADED => \A k \in ModelNames : inits[k] = 1
    /\ ~MODELS_LOADED =>
          /\ \A k \in ModelNames : inits[k] = 0
          /\ VADER_ANALYZER = None /\ ROBERTA_PIPELINE = None /\ KEYWORD_MODEL = None

\* once the models are loaded no step constructs a model again or changes which
\* models are available
NoRetry ==
    MODELS_LOADED =>
        UNCHANGED <<MODELS_LOADED, VADER_ANALYZER, ROBERTA_PIPELINE, KEYWORD_MODEL, inits>>

\* for the row the loop visited last: a model is invoked exactly when it is
\* available and the cascade reaches it, whatever happened to the other models
UsedWhenAvailable ==
    last.visited =>
        LET nonblank == Strip(last.content) # <<>>
            modelFirst == last.source # "youtube" /\ ROBERTA_PIPELINE # None
        IN  /\ ("roberta" \in last.invoked) <=> (nonblank /\ modelFirst)
            /\ ("vader" \in last.invoked) <=>
                  /\ nonblank /\ VADER_ANALYZER # None
                  /\ ~modelFirst \/ last.rob.kind \in {"raise", "empty_list"}

\* the phrase model's list is only returned when the phrase model is available
PhraseModelOnlyWhenAvailable ==
    (trends = ModelKeywords \/ response.trends = ModelKeywords) => KEYWORD_MODEL # None

\* C12 (models initialised once): over any sequence of analyze_sentiment and
\* extract_trends calls in one process the initialization of each of the three
\* models is attempted at most once; a model whose initialization failed stays
\* unavailable for all later calls (no retry); the failure of one model's
\* initialization does not prevent the other two from being initialized and used.
C12_ModelsInitialisedOnce ==
    /\ [](AttemptedAtMostOnce /\ UsedWhenAvailable /\ PhraseModelOnlyWhenAvailable)
    /\ [][NoRetry]_vars

\* a later process_data call, after _load_models was called again: the lexicon
\* analyzer failed to initialise and is still None, each constructor ran once,
\* the sentiment model labelled a record and the phrase model gave the trends
C12_Witness ==
    /\ reloaded /\ pc = "done" /\ caller = "process_data" /\ failed = {}
    /\ VADER_ANALYZER = None /\ ROBERTA_PIPELINE # None /\ KEYWORD_MODEL # None
    /\ \A k \in ModelNames : inits[k] = 1
    /\ response.trends = ModelKeywords
    /\ \E i \in DOMAIN response.cleaned_records :
          response.cleaned_records[i].sentiment = "negative"

====
